---------------------------- MODULE Spec2Model ----------------------------
(***************************************************************************)
(* A state-machine model of CloudStorm's DiscordConnector                  *)
(* (src/src/connector/DiscordConnector.ts): the gateway session state      *)
(* machine, its heartbeat timer, sequence tracking and the close-code      *)
(* recovery policy, driven by the notifications of the BetterWs transport  *)
(* and by the consumer's calls.                                            *)
(*                                                                         *)
(* Every handler of the class is an operator on a "machine" record         *)
(*   m = [c: the connector's fields, g: the module-level `reconnecting`,   *)
(*        log: the effects the handler produced so far]                    *)
(* so that the statements of a handler compose in the order of the code.   *)
(* An action runs one handler to completion and commits its machine.       *)
(*                                                                         *)
(* Time: the only reader of Date.now() and lastACKAt is the comparison     *)
(* `lastACKAt <= Date.now() - (heartbeatInterval + 5000)` of the heartbeat *)
(* tick, so the model keeps their difference, ackAge = Date.now() -        *)
(* lastACKAt, saturated at AgeCap (every older acknowledgement is stale    *)
(* for every interval).  lastHeartbeatSend and latency are written and     *)
(* never read by the connector; the model leaves them out.                 *)
(***************************************************************************)
EXTENDS Integers, Sequences, FiniteSets, TLC

(***************************************************************************)
(* Bounds of the model.                                                    *)
(***************************************************************************)
\* largest sequence number an inbound envelope carries
MaxSeq == 2
\* setInterval timers of one connector that may be running at once
MaxTimers == 2
\* _reconnect() calls that may be awaiting the transport close at once
MaxPending == 2

(***************************************************************************)
(* Program constants.                                                      *)
(***************************************************************************)
\* the 5000 ms added to heartbeatInterval in the heartbeat tick
HeartbeatGrace == 5000

\* null
Null == "null"
\* message.s absent (null / undefined)
NoSeq == -1

\* session ids the gateway may issue in READY
SessionIds == {"abc"}
\* d._trace of HELLO / READY / RESUMED
Traces == {"gw-1"}
\* d.heartbeat_interval of HELLO
Intervals == {HeartbeatGrace}
\* Date.now() - lastACKAt from which an acknowledgement is stale whatever
\* the interval; lastACKAt = 0 (never acknowledged, or reset) is that old
AgeCap == 2 * HeartbeatGrace

\* GATEWAY_OP_CODES used by messageAction; OpOther stands for every opcode
\* the switch does not list
OpDispatch == 0
OpHeartbeat == 1
OpIdentify == 2
OpResume == 6
OpReconnect == 7
OpInvalidSession == 9
OpHello == 10
OpHeartbeatAck == 11
OpOther == 12
\* the opcodes of the payloads the consumer sends through the connector
OpPresenceUpdate == 3
OpVoiceStateUpdate == 4
OpRequestGuildMembers == 8

\* heartbeatTimeout holds the handle of a timer
Held == "handle"

\* close codes handleWsClose lists, with 1001 standing for every other code
FatalCodes == {4004, 4010, 4011, 4012, 4013, 4014}
PreserveCodes == {4001, 4002, 4003, 4005, 4008, 4009}
CloseCodes == {1000, 1001, 4000, 4007} \cup FatalCodes \cup PreserveCodes

VARIABLES
    conn,          \* conn[c]: the fields of connector c and of its transport
    reconnecting,  \* the module-level `let reconnecting`
    log,           \* the effects of the last handler, in order
    last           \* the last handler: its name, its connector, its input

vars == <<conn, reconnecting, log, last>>

Shards == DOMAIN conn

\* JavaScript truthiness of sessionId (null and "" are falsy)
Truthy(sid) == sid # Null /\ sid # ""

(***************************************************************************)
(* Machines.                                                               *)
(***************************************************************************)
Start(c) == [c |-> conn[c], g |-> reconnecting, log |-> <<>>]

Emit(m, e) == [m EXCEPT !.log = Append(@, e)]


(***************************************************************************)
(* The BetterWs transport, as far as the connector uses it: connect(),     *)
(* close(code, reason), sendMessage(data) and the status field.  Its       *)
(* status is "closed", "connecting" (status === 2), "open" (status === 1)  *)
(* or "closing".                                                           *)
(***************************************************************************)
\* betterWs.connect(): a no-op unless the transport is closed
wsConnect(m) ==
    LET m1 == Emit(m, [e |-> "connect"])
    IN  IF m.c.ws = "closed" THEN [m1 EXCEPT !.c.ws = "connecting"] ELSE m1

\* betterWs.close(code, reason): starts closing an open or connecting transport
wsClose(m, code) ==
    LET m1 == Emit(m, [e |-> "close", code |-> code])
    IN  IF m.c.ws \in {"open", "connecting"}
        THEN [m1 EXCEPT !.c.ws = "closing"] ELSE m1

\* betterWs.sendMessage(data): the envelope is handed to the transport
wsSend(m, op, seq, sid) ==
    Emit(m, [e |-> "send", op |-> op, seq |-> seq, sid |-> sid,
             open |-> (m.c.ws = "open")])

\* `if (this.betterWs.status !== 1) void this.client.emit("debug", ...)`
reportNotOpen(m, what) ==
    IF m.c.ws # "open" THEN Emit(m, [e |-> "debug", what |-> what]) ELSE m

(***************************************************************************)
(* The connector's methods.                                                *)
(***************************************************************************)
connect(m) == wsConnect([m EXCEPT !.c.closing = FALSE])

disconnect(m) == wsClose([m EXCEPT !.c.closing = TRUE], 1000)

\* timers counts the running setInterval timers; the one heartbeatTimeout
\* holds is among them, the others are timers no field refers to any more
clearHeartBeat(m) ==
    LET m1 == IF m.c.heartbeatTimeout # Null
              THEN Emit([m EXCEPT !.c.timers = @ - 1], [e |-> "clearInterval"])
              ELSE m
    IN  [m1 EXCEPT !.c.heartbeatTimeout = Null, !.c.heartbeatInterval = 0]

reset(m) ==
    clearHeartBeat([m EXCEPT !.c.sessionId = Null, !.c.seq = 0,
                             !.c.ackAge = AgeCap, !.c.trace = Null])

resume(m) ==
    LET m1 == reportNotOpen(m, "resume")
        m2 == Emit([m1 EXCEPT !.c.status = "resuming"],
                   [e |-> "stateChange", st |-> "resuming"])
    IN  wsSend(m2, OpResume, m2.c.seq, m2.c.sessionId)

\* identify that resumes whenever a session exists, force or not
identify_ignoresForce(m, force) ==
    LET m1 == reportNotOpen(m, "identify")
    IN  IF Truthy(m1.c.sessionId)
        THEN resume(m1)
        ELSE LET m2 == Emit([m1 EXCEPT !.c.status = "identifying"],
                            [e |-> "stateChange", st |-> "identifying"])
             IN  wsSend(m2, OpIdentify, NoSeq, Null)

identify(m, force) ==
    LET m1 == reportNotOpen(m, "identify")
    IN  IF Truthy(m1.c.sessionId) /\ ~force
        THEN resume(m1)
        ELSE LET m2 == Emit([m1 EXCEPT !.c.status = "identifying"],
                            [e |-> "stateChange", st |-> "identifying"])
             IN  wsSend(m2, OpIdentify, NoSeq, Null)

heartbeat(m) ==
    LET m1 == reportNotOpen(m, "heartbeat")
    IN  wsSend(m1, OpHeartbeat, m1.c.seq, Null)

\* presenceUpdate(data), voiceStateUpdate(data) and requestGuildMembers(data):
\* the checked payload goes to betterWs.sendMessage; voiceStateUpdate
\* returns at once when it is called without data
presenceUpdate(m) == wsSend(m, OpPresenceUpdate, NoSeq, Null)

voiceStateUpdate(m, hasData) ==
    IF hasData THEN wsSend(m, OpVoiceStateUpdate, NoSeq, Null) ELSE m

requestGuildMembers(m) == wsSend(m, OpRequestGuildMembers, NoSeq, Null)

handleDispatch(m, msg) ==
    IF msg.t \in {"READY", "RESUMED"}
    THEN LET m1 == IF msg.t = "READY"
                   THEN [m EXCEPT !.c.sessionId = msg.sid] ELSE m
             m2 == Emit([m1 EXCEPT !.c.status = "ready"],
                        [e |-> "stateChange", st |-> "ready"])
             m3 == [m2 EXCEPT !.c.trace = msg.tr]
             m4 == Emit(m3, [e |-> "ready", resumed |-> (msg.t = "RESUMED")])
         IN  Emit(m4, [e |-> "event"])
    ELSE Emit(m, [e |-> "event"])

\* _reconnect(resume) up to its `await this.betterWs.close(...)`.  The call
\* then waits for the transport to close; on a transport that is closed
\* already the promise settles at once (settles) or never fulfils.  A
\* waiting call keeps its argument and, as history, its caller (by).
_reconnect(m, isResume, settles, by) ==
    LET m1 == IF isResume THEN [m EXCEPT !.g = TRUE] ELSE m
        m2 == IF m1.c.ws = "connecting" THEN Emit(m1, [e |-> "error"]) ELSE m1
        m3 == wsClose(m2, IF isResume THEN 4000 ELSE 1012)
        call == [resume |-> isResume, by |-> by]
    IN  IF m3.c.ws = "closed"
        THEN IF settles THEN [m3 EXCEPT !.c.reconReady = Append(@, call)]
                        ELSE m3
        ELSE [m3 EXCEPT !.c.reconWaiting = Append(@, call)]

\* reconnectResumed with the hard reset on every path
reconnectResumed_alwaysReset(m, isResume) == connect(reset(m))

\* _reconnect(resume) after the await
reconnectResumed(m, isResume) ==
    connect(IF isResume THEN clearHeartBeat(m) ELSE reset(m))

\* the callback of setInterval in OP.HELLO
heartbeatTick(m, settles) ==
    IF m.c.ackAge >= m.c.heartbeatInterval + HeartbeatGrace
    THEN IF m.c.optReconnect THEN _reconnect(m, TRUE, settles, "tick")
                             ELSE disconnect(m)
    ELSE heartbeat(m)

\* inbound envelopes {op, d, s, t}; d is spread over dflag (the boolean of
\* INVALID_SESSION), interval (d.heartbeat_interval), sid (d.session_id) and
\* tr (d._trace)
Envelope(op, sq, t, dflag, interval, sid, tr) ==
    [op |-> op, s |-> sq, t |-> t, dflag |-> dflag, interval |-> interval,
     sid |-> sid, tr |-> tr]

SeqValues == {NoSeq} \cup (0 .. MaxSeq)

\* The envelopes the gateway may send.  On the wire only dispatches carry
\* s; INVALID_SESSION is given one as well, because its handler is the one
\* control handler that writes seq after the sequence tracking has run.
Messages ==
    {Envelope(OpDispatch, sq, "READY", FALSE, 0, sid, tr) :
        sq \in SeqValues, sid \in SessionIds, tr \in Traces}
    \cup {Envelope(OpDispatch, sq, t, FALSE, 0, Null, tr) :
        sq \in SeqValues, t \in {"RESUMED", "MESSAGE_CREATE"}, tr \in Traces}
    \cup {Envelope(op, NoSeq, Null, FALSE, 0, Null, Null) :
        op \in {OpHeartbeat, OpReconnect, OpHeartbeatAck, OpOther}}
    \cup {Envelope(OpInvalidSession, sq, Null, d, 0, Null, Null) :
        sq \in SeqValues, d \in BOOLEAN}
    \cup {Envelope(OpHello, NoSeq, Null, FALSE, i, Null, tr) :
        i \in Intervals, tr \in Traces}

\* trackSequence with the gap test off by one (s > seq instead of s > seq + 1)
trackSequence_gapOffByOne(m, msg) ==
    IF msg.s # NoSeq /\ msg.s # 0
    THEN LET m1 == IF msg.s > m.c.seq
                   THEN resume([m EXCEPT !.c.seq = msg.s]) ELSE m
         IN  [m1 EXCEPT !.c.seq = msg.s]
    ELSE m

\* `if (message.s) { ... }`: the sequence tracking at the head of messageAction
trackSequence(m, msg) ==
    IF msg.s # NoSeq /\ msg.s # 0
    THEN LET m1 == IF msg.s > m.c.seq + 1
                   THEN resume([m EXCEPT !.c.seq = msg.s]) ELSE m
         IN  [m1 EXCEPT !.c.seq = msg.s]
    ELSE m

\* case OP.HELLO
handleHello(m, msg) ==
    LET m1 == heartbeat(m)
        m2 == [m1 EXCEPT !.c.heartbeatInterval = msg.interval]
        m3 == Emit([m2 EXCEPT !.c.heartbeatTimeout = Held,
                              !.c.timers = @ + 1],
                   [e |-> "setInterval"])
        m4 == [m3 EXCEPT !.c.trace = msg.tr]
    IN  Emit(m4, [e |-> "queueIdentify"])

\* handleInvalidSession that resumes whenever a session exists, whatever d
handleInvalidSession_ignoresPayload(m, msg) ==
    IF Truthy(m.c.sessionId)
    THEN resume(m)
    ELSE Emit([m EXCEPT !.c.seq = 0, !.c.sessionId = ""],
              [e |-> "queueIdentify"])

\* case OP.INVALID_SESSION
handleInvalidSession(m, msg) ==
    IF msg.dflag /\ Truthy(m.c.sessionId)
    THEN resume(m)
    ELSE Emit([m EXCEPT !.c.seq = 0, !.c.sessionId = ""],
              [e |-> "queueIdentify"])

\* handleReconnect that asks for the hard reconnect, _reconnect(false)
handleReconnect_hardReconnect(m, settles) ==
    IF m.c.optReconnect THEN _reconnect(m, FALSE, settles, "ws_message")
                        ELSE disconnect(m)

\* case OP.RECONNECT
handleReconnect(m, settles) ==
    IF m.c.optReconnect THEN _reconnect(m, TRUE, settles, "ws_message")
                        ELSE disconnect(m)

\* case OP.HEARTBEAT_ACK
handleHeartbeatAck(m) == [m EXCEPT !.c.ackAge = 0]

messageAction(m, msg, settles) ==
    LET m1 == trackSequence(m, msg)
    IN  CASE msg.op = OpDispatch       -> handleDispatch(m1, msg)
          [] msg.op = OpHeartbeat      -> heartbeat(m1)
          [] msg.op = OpReconnect      -> handleReconnect(m1, settles)
          [] msg.op = OpInvalidSession -> handleInvalidSession(m1, msg)
          [] msg.op = OpHello          -> handleHello(m1, msg)
          [] msg.op = OpHeartbeatAck   -> handleHeartbeatAck(m1)
          [] OTHER                     -> Emit(m1, [e |-> "event"])

\* closeRecovery with 4007 handled like 4009: the heartbeat cleared, no reset
closeRecovery_4007KeepsSession(m, code) ==
    CASE code \in {4014, 4013, 4012, 4011, 4010, 4004} ->
            Emit(m, [e |-> "error"])
      [] code \in {4009, 4008, 4007, 4005, 4003, 4002, 4001} ->
            connect(clearHeartBeat(Emit(m, [e |-> "error"])))
      [] code = 4000 /\ ~m.g ->
            connect(clearHeartBeat(Emit(m, [e |-> "error"])))
      [] OTHER -> m

\* closeRecovery with 4001..4009 handled like 4007: a hard reset
closeRecovery_preserveCodesReset(m, code) ==
    CASE code \in {4014, 4013, 4012, 4011, 4010, 4004} ->
            Emit(m, [e |-> "error"])
      [] code \in {4009, 4008, 4007, 4005, 4003, 4002, 4001} ->
            connect(reset(Emit(m, [e |-> "error"])))
      [] code = 4000 /\ ~m.g ->
            connect(clearHeartBeat(Emit(m, [e |-> "error"])))
      [] OTHER -> m

\* closeRecovery that handles 4000 without reading `reconnecting`
closeRecovery_4000IgnoresFlag(m, code) ==
    CASE code \in {4014, 4013, 4012, 4011, 4010, 4004} ->
            Emit(m, [e |-> "error"])
      [] code \in {4009, 4008, 4005, 4003, 4002, 4001} ->
            connect(clearHeartBeat(Emit(m, [e |-> "error"])))
      [] code = 4007 ->
            connect(reset(Emit(m, [e |-> "error"])))
      [] code = 4000 ->
            connect(clearHeartBeat(Emit(m, [e |-> "error"])))
      [] OTHER -> m

\* the `if (code === ...)` statements of handleWsClose that report an error
\* and reconnect; the codes exclude one another, so at most one applies
closeRecovery(m, code) ==
    CASE code \in {4014, 4013, 4012, 4011, 4010, 4004} ->
            Emit(m, [e |-> "error"])
      [] code \in {4009, 4008, 4005, 4003, 4002, 4001} ->
            connect(clearHeartBeat(Emit(m, [e |-> "error"])))
      [] code = 4007 ->
            connect(reset(Emit(m, [e |-> "error"])))
      [] code = 4000 /\ ~m.g ->
            connect(clearHeartBeat(Emit(m, [e |-> "error"])))
      [] OTHER -> m

\* handleWsClose that never looks at _closing: a close with code 1000 is
\* graceful only by the pending-reconnect rule, which is for 4000
handleWsClose_ignoresClosing(m, code) ==
    LET m1 == Emit([m EXCEPT !.c.status = "disconnected"],
                   [e |-> "stateChange", st |-> "disconnected"])
        m2 == closeRecovery(m1, code)
        gracefulClose == (code = 4000 /\ m1.g)
        m3 == [m2 EXCEPT !.c.closing = FALSE]
        m4 == IF gracefulClose THEN clearHeartBeat(m3) ELSE m3
    IN  Emit(m4, [e |-> "disconnect", code |-> code,
                  graceful |-> gracefulClose])

\* handleWsClose that clears _closing only after a graceful close
handleWsClose_keepsClosing(m, code) ==
    LET m1 == Emit([m EXCEPT !.c.status = "disconnected"],
                   [e |-> "stateChange", st |-> "disconnected"])
        m2 == closeRecovery(m1, code)
        gracefulClose == (code = 4000 /\ m1.g) \/ (code = 1000 /\ m2.c.closing)
        m3 == IF gracefulClose
              THEN clearHeartBeat([m2 EXCEPT !.c.closing = FALSE]) ELSE m2
    IN  Emit(m3, [e |-> "disconnect", code |-> code,
                  graceful |-> gracefulClose])

handleWsClose(m, code) ==
    LET m1 == Emit([m EXCEPT !.c.status = "disconnected"],
                   [e |-> "stateChange", st |-> "disconnected"])
        m2 == closeRecovery(m1, code)
        gracefulClose == (code = 4000 /\ m1.g) \/ (code = 1000 /\ m2.c.closing)
        m3 == [m2 EXCEPT !.c.closing = FALSE]
        m4 == IF gracefulClose THEN clearHeartBeat(m3) ELSE m3
    IN  Emit(m4, [e |-> "disconnect", code |-> code,
                  graceful |-> gracefulClose])

\* the "ws_open" listener of the constructor
handleWsOpen(m) ==
    LET m1 == Emit([m EXCEPT !.c.status = "connecting"],
                   [e |-> "stateChange", st |-> "connecting"])
    IN  [m1 EXCEPT !.g = FALSE]

(***************************************************************************)
(* The state after construction.                                           *)
(***************************************************************************)
\* the fields a new DiscordConnector starts with; optReconnect is
\* client.options.reconnect.  fatalClosed is a history field: a close with a
\* fatal code was handled and the consumer has not called connect() since.
InitConn(optReconnect) ==
    [status |-> "disconnected", sessionId |-> Null, seq |-> 0, trace |-> Null,
     heartbeatTimeout |-> Null, heartbeatInterval |-> 0, ackAge |-> AgeCap,
     closing |-> FALSE, optReconnect |-> optReconnect,
     ws |-> "closed", timers |-> 0,
     reconWaiting |-> <<>>, reconReady |-> <<>>, fatalClosed |-> FALSE]

\* what `last` keeps of a handler: its name h (for the continuation of a
\* _reconnect() call, "reconnectResumed:" and the caller), its connector
\* and, of its input, the close code, the envelope's op and s, and the
\* boolean (identify's force, INVALID_SESSION's d, _reconnect's resume)
Handler(h, c, code, op, sq, flag) ==
    [h |-> h, c |-> c, code |-> code, op |-> op, s |-> sq, flag |-> flag]

InitShards(S) ==
    /\ conn \in [S -> {InitConn(o) : o \in BOOLEAN}]
    /\ reconnecting = FALSE
    /\ log = <<>>
    /\ last = Handler("new", 1, 0, OpOther, NoSeq, FALSE)

Init == InitShards({1})

(***************************************************************************)
(* Actions: one handler each, run to completion.                           *)
(***************************************************************************)
\* the continuation of an `await` runs before any other event is handled
Idle == \A c \in Shards : conn[c].reconReady = <<>>

Pending(c) == Len(conn[c].reconWaiting) + Len(conn[c].reconReady)

Commit(c, m, h) ==
    /\ conn' = [conn EXCEPT ![c] = m.c]
    /\ reconnecting' = m.g
    /\ log' = m.log
    /\ last' = h

\* the consumer calls connect()
Connect(c) ==
    /\ Idle
    /\ LET m == connect(Start(c))
       IN  Commit(c, [m EXCEPT !.c.fatalClosed = FALSE],
                  Handler("connect", c, 0, OpOther, NoSeq, FALSE))

\* the consumer calls disconnect()
Disconnect(c) ==
    /\ Idle
    /\ Commit(c, disconnect(Start(c)),
              Handler("disconnect", c, 0, OpOther, NoSeq, FALSE))

\* the consumer calls identify(force)
Identify(c, force) ==
    /\ Idle
    /\ Commit(c, identify(Start(c), force),
              Handler("identify", c, 0, OpOther, NoSeq, force))

\* the consumer calls presenceUpdate(data)
PresenceUpdate(c) ==
    /\ Idle
    /\ Commit(c, presenceUpdate(Start(c)),
              Handler("presenceUpdate", c, 0, OpOther, NoSeq, FALSE))

\* the consumer calls voiceStateUpdate(data), with data or without
VoiceStateUpdate(c, hasData) ==
    /\ Idle
    /\ Commit(c, voiceStateUpdate(Start(c), hasData),
              Handler("voiceStateUpdate", c, 0, OpOther, NoSeq, hasData))

\* the consumer calls requestGuildMembers(data)
RequestGuildMembers(c) ==
    /\ Idle
    /\ Commit(c, requestGuildMembers(Start(c)),
              Handler("requestGuildMembers", c, 0, OpOther, NoSeq, FALSE))

\* the transport reports "ws_open"
WsOpen(c) ==
    /\ Idle
    /\ conn[c].ws = "connecting"
    /\ LET m == Start(c)
       IN  Commit(c, handleWsOpen([m EXCEPT !.c.ws = "open"]),
                  Handler("ws_open", c, 0, OpOther, NoSeq, FALSE))

\* whether a close() promise on a closed transport settles is a choice only
\* where _reconnect() can run on a closed transport
Settles(c) == IF conn[c].ws = "closed" THEN BOOLEAN ELSE {TRUE}

\* the transport reports "ws_message"; it delivers envelopes while it is
\* open, none once close() has been requested
WsMessage(c, msg) ==
    /\ Idle
    /\ conn[c].ws = "open"
    /\ msg.op = OpHello => conn[c].timers < MaxTimers
    /\ msg.op = OpReconnect => Pending(c) < MaxPending
    /\ Commit(c, messageAction(Start(c), msg, TRUE),
              Handler("ws_message", c, 0, msg.op, msg.s, msg.dflag))

\* the transport reports "ws_close": the transport is closed, the listener
\* runs, and the close() promises that awaited the close are fulfilled
WsClose(c, code) ==
    /\ Idle
    /\ conn[c].ws \in {"open", "closing", "connecting"}
    /\ LET m0 == Start(c)
           m1 == handleWsClose([m0 EXCEPT !.c.ws = "closed"], code)
           m2 == [m1 EXCEPT !.c.reconReady = m1.c.reconWaiting,
                            !.c.reconWaiting = <<>>,
                            !.c.fatalClosed = @ \/ code \in FatalCodes]
       IN  Commit(c, m2, Handler("ws_close", c, code, OpOther, NoSeq, FALSE))

\* one of the running timers of connector c fires
HeartbeatTick(c, settles) ==
    /\ Idle
    /\ conn[c].timers > 0
    /\ Pending(c) < MaxPending
    /\ Commit(c, heartbeatTick(Start(c), settles),
              Handler("tick", c, 0, OpOther, NoSeq, settles))

\* a _reconnect() call continues after its await
ReconnectResumed(c) ==
    /\ conn[c].reconReady # <<>>
    /\ LET m0 == Start(c)
           m1 == [m0 EXCEPT !.c.reconReady = Tail(@)]
           call == Head(conn[c].reconReady)
       IN  Commit(c, reconnectResumed(m1, call.resume),
                  Handler(IF call.by = "tick" THEN "reconnectResumed:tick"
                                              ELSE "reconnectResumed:ws_message",
                          c, 0, OpOther, NoSeq, call.resume))

\* time passes: every acknowledgement grows older by one step
Clock ==
    /\ Idle
    /\ \E c \in Shards : conn[c].ackAge < AgeCap
    /\ conn' = [c \in Shards |->
                  [conn[c] EXCEPT !.ackAge =
                      IF @ < AgeCap THEN @ + HeartbeatGrace ELSE @]]
    /\ log' = <<>>
    /\ last' = Handler("clock", 1, 0, OpOther, NoSeq, FALSE)
    /\ UNCHANGED reconnecting

Next ==
    \/ \E c \in Shards : Connect(c)
    \/ \E c \in Shards : Disconnect(c)
    \/ \E c \in Shards, force \in BOOLEAN : Identify(c, force)
    \/ \E c \in Shards : PresenceUpdate(c)
    \/ \E c \in Shards, hasData \in BOOLEAN : VoiceStateUpdate(c, hasData)
    \/ \E c \in Shards : RequestGuildMembers(c)
    \/ \E c \in Shards : WsOpen(c)
    \/ \E c \in Shards, msg \in Messages : WsMessage(c, msg)
    \/ \E c \in Shards, code \in CloseCodes : WsClose(c, code)
    \/ \E c \in Shards : \E settles \in Settles(c) : HeartbeatTick(c, settles)
    \/ \E c \in Shards : ReconnectResumed(c)
    \/ Clock

Spec == Init /\ [][Next]_vars

(***************************************************************************)
(* Reading the effects of the last handler.                                *)
(***************************************************************************)
Has(l, k) == \E i \in DOMAIN l : l[i].e = k

Count(l, k) == Cardinality({i \in DOMAIN l : l[i].e = k})

\* the sends of a log, in order
Sends(l) == SelectSeq(l, LAMBDA x : x.e = "send")

SendsOp(l, op) == \E i \in DOMAIN l : l[i].e = "send" /\ l[i].op = op

\* every effect k1 of the log comes before every effect k2
Before(l, k1, k2) ==
    \A i, j \in DOMAIN l : (l[i].e = k1 /\ l[j].e = k2) => i < j

EmitsDisconnect(l, graceful) ==
    \E i \in DOMAIN l : l[i].e = "disconnect" /\ l[i].graceful = graceful

(***************************************************************************)
(* Claims.                                                                 *)
(***************************************************************************)

\* C1: once handleWsClose has handled a close with code 4004 or 4010..4014
\* it has emitted an error, and from then on only a consumer call to
\* connect() requests a transport connect: while fatalClosed holds, no
\* handler of the connector requests one.
C1_FatalCloseNeverReconnects ==
    \A c \in Shards :
        /\ (last.h = "ws_close" /\ last.c = c /\ last.code \in FatalCodes)
              => Has(log, "error")
        /\ (conn[c].fatalClosed /\ last.c = c) => ~Has(log, "connect")

\* C2: a close with code 4007 hard-resets the connector (sessionId null,
\* seq 0, trace null, the held heartbeat timer cancelled) and only then
\* requests a transport connect; an identify() that follows sends an
\* identify (op 2) and no resume.
C2_Close4007HardResetThenConnect ==
    [][ /\ (last'.h = "ws_close" /\ last'.code = 4007) =>
              LET c == last'.c
              IN  /\ conn'[c].sessionId = Null
                  /\ conn'[c].seq = 0
                  /\ conn'[c].trace = Null
                  /\ conn'[c].heartbeatTimeout = Null
                  /\ conn'[c].heartbeatInterval = 0
                  /\ Count(log', "clearInterval")
                        = (IF conn[c].heartbeatTimeout # Null THEN 1 ELSE 0)
                  /\ conn'[c].timers = conn[c].timers - Count(log', "clearInterval")
                  /\ Count(log', "connect") = 1
                  /\ Before(log', "clearInterval", "connect")
                  /\ Has(log', "error")
        /\ (last.h = "ws_close" /\ last.code = 4007
            /\ last'.h = "identify" /\ last'.c = last.c) =>
              /\ SendsOp(log', OpIdentify)
              /\ ~SendsOp(log', OpResume)
      ]_vars

\* witness of C2: a close 4007 was handled while a heartbeat timer was held
C2_Witness ==
    /\ last.h = "ws_close" /\ last.code = 4007
    /\ Has(log, "clearInterval") /\ Has(log, "connect")
    /\ conn[last.c].sessionId = Null

\* C3: a close with code 1000 handled while closing is true requests no
\* connect, emits no error, cancels the held heartbeat timer and emits
\* disconnect with wasGraceful = true.
C3_Close1000WhileClosingIsGraceful ==
    [][ (last'.h = "ws_close" /\ last'.code = 1000 /\ conn[last'.c].closing) =>
              LET c == last'.c
              IN  /\ ~Has(log', "connect")
                  /\ ~Has(log', "error")
                  /\ conn'[c].heartbeatTimeout = Null
                  /\ Count(log', "clearInterval")
                        = (IF conn[c].heartbeatTimeout # Null THEN 1 ELSE 0)
                  /\ conn'[c].timers = conn[c].timers - Count(log', "clearInterval")
                  /\ EmitsDisconnect(log', TRUE)
                  /\ ~EmitsDisconnect(log', FALSE)
      ]_vars

\* witness of C3: a graceful close 1000 that cancelled a held timer
C3_Witness ==
    /\ last.h = "ws_close" /\ last.code = 1000
    /\ EmitsDisconnect(log, TRUE)
    /\ Has(log, "clearInterval")
    /\ conn[last.c].ws = "closed"

\* the heartbeat tick's test: no acknowledgement within interval + 5000 ms
StaleAck(cn) == cn.ackAge >= cn.heartbeatInterval + HeartbeatGrace

\* C4 as claimed: the reconnect a stale heartbeat tick starts clears
\* sessionId and resets seq to 0 before it requests the connect, and with
\* auto-reconnect disabled the tick disconnects and requests no connect.
C4_StaleTickReidentifies ==
    [][ /\ last'.h = "reconnectResumed:tick" =>
              /\ conn'[last'.c].sessionId = Null
              /\ conn'[last'.c].seq = 0
              /\ Has(log', "connect")
        /\ (last'.h = "tick" /\ StaleAck(conn[last'.c])
            /\ ~conn[last'.c].optReconnect) =>
              /\ conn'[last'.c].closing
              /\ ~Has(log', "connect")
      ]_vars

\* C4, amended: a heartbeat tick that finds the acknowledgement stale
\* cancels nothing itself.  With auto-reconnect enabled it sets the
\* pending-resume flag and requests a transport close with code 4000; the
\* continuation of that reconnect cancels the held timer (once, if one is
\* still held) and then requests one connect, with sessionId, seq and trace
\* as they were (no hard reset).  With auto-reconnect disabled the tick
\* calls disconnect(): closing = true, a close with code 1000, no connect.
C4_StaleTickReconnectsPreserving ==
    [][ /\ (last'.h = "tick" /\ StaleAck(conn[last'.c])) =>
              LET c == last'.c
              IN  /\ ~Has(log', "connect")
                  /\ ~Has(log', "clearInterval")
                  /\ ~Has(log', "send")
                  /\ Count(log', "close") = 1
                  /\ conn'[c].sessionId = conn[c].sessionId
                  /\ conn'[c].seq = conn[c].seq
                  /\ conn'[c].timers = conn[c].timers
                  /\ conn'[c].heartbeatTimeout = conn[c].heartbeatTimeout
                  /\ IF conn[c].optReconnect
                     THEN /\ reconnecting'
                          /\ \E i \in DOMAIN log' :
                                log'[i].e = "close" /\ log'[i].code = 4000
                          /\ conn'[c].closing = conn[c].closing
                     ELSE /\ conn'[c].closing
                          /\ \E i \in DOMAIN log' :
                                log'[i].e = "close" /\ log'[i].code = 1000
                          /\ reconnecting' = reconnecting
                          /\ conn'[c].reconWaiting = conn[c].reconWaiting
                          /\ conn'[c].reconReady = conn[c].reconReady
        /\ last'.h = "reconnectResumed:tick" =>
              LET c == last'.c
              IN  /\ conn'[c].sessionId = conn[c].sessionId
                  /\ conn'[c].seq = conn[c].seq
                  /\ conn'[c].trace = conn[c].trace
                  /\ conn'[c].heartbeatTimeout = Null
                  /\ Count(log', "clearInterval")
                        = (IF conn[c].heartbeatTimeout # Null THEN 1 ELSE 0)
                  /\ conn'[c].timers = conn[c].timers - Count(log', "clearInterval")
                  /\ Count(log', "connect") = 1
                  /\ Before(log', "clearInterval", "connect")
      ]_vars

\* witness of C4: the reconnect of a stale tick has requested its connect
\* and the session it preserved is a real one
C4_Witness ==
    /\ last.h = "reconnectResumed:tick"
    /\ Has(log, "connect")
    /\ Truthy(conn[last.c].sessionId)
    /\ conn[last.c].seq > 0

\* what the sequence tracking leaves in seq for an envelope with this s
Tracked(cn, sq) == IF sq # NoSeq /\ sq # 0 THEN sq ELSE cn.seq

\* C5 as claimed: on INVALID_SESSION a non-empty sessionId means a resume
\* with sessionId and seq kept, whatever the payload; an empty one means a
\* hard reset (sessionId, seq and trace cleared, heartbeat cancelled) and
\* an identify-required notification.
C5_InvalidSessionAsClaimed ==
    [][ (last'.h = "ws_message" /\ last'.op = OpInvalidSession) =>
              LET c == last'.c
              IN  IF Truthy(conn[c].sessionId)
                  THEN /\ SendsOp(log', OpResume)
                       /\ conn'[c].sessionId = conn[c].sessionId
                       /\ conn'[c].seq = Tracked(conn[c], last'.s)
                  ELSE /\ ~Truthy(conn'[c].sessionId)
                       /\ conn'[c].seq = 0
                       /\ conn'[c].trace = Null
                       /\ conn'[c].heartbeatTimeout = Null
                       /\ Has(log', "queueIdentify")
      ]_vars

\* C5, amended: on INVALID_SESSION, if the payload d is true and sessionId
\* is non-empty the connector sends a resume and resets neither sessionId
\* nor seq; in every other case (d false, or no sessionId) it sets seq to 0
\* and sessionId to the empty string and emits identify-required.  In
\* neither case does it clear trace or cancel the heartbeat timer.
C5_InvalidSessionResumesOnlyIfResumable ==
    [][ (last'.h = "ws_message" /\ last'.op = OpInvalidSession) =>
              LET c == last'.c
              IN  /\ IF last'.flag /\ Truthy(conn[c].sessionId)
                     THEN /\ SendsOp(log', OpResume)
                          /\ conn'[c].status = "resuming"
                          /\ conn'[c].sessionId = conn[c].sessionId
                          /\ conn'[c].seq = Tracked(conn[c], last'.s)
                          /\ ~Has(log', "queueIdentify")
                     ELSE /\ conn'[c].sessionId = ""
                          /\ conn'[c].seq = 0
                          /\ Count(log', "queueIdentify") = 1
                  /\ conn'[c].trace = conn[c].trace
                  /\ conn'[c].heartbeatTimeout = conn[c].heartbeatTimeout
                  /\ conn'[c].timers = conn[c].timers
                  /\ ~Has(log', "clearInterval")
      ]_vars

\* witness of C5: INVALID_SESSION with d = false was handled: the session
\* is gone, identify-required was emitted, the timer and the trace remain
C5_Witness ==
    /\ last.h = "ws_message" /\ last.op = OpInvalidSession /\ ~last.flag
    /\ Has(log, "queueIdentify")
    /\ conn[last.c].sessionId = ""
    /\ conn[last.c].heartbeatTimeout # Null
    /\ conn[last.c].trace # Null

\* the resumes messageAction sends for an envelope: one by the sequence
\* tracking on a gap, one by INVALID_SESSION with d = true and a session
ResumesOf(cn, msg) ==
    (IF msg.s # NoSeq /\ msg.s # 0 /\ msg.s > cn.seq + 1 THEN 1 ELSE 0)
    + (IF msg.op = OpInvalidSession /\ msg.flag /\ Truthy(cn.sessionId)
       THEN 1 ELSE 0)

NumResumes(l) ==
    Cardinality({i \in DOMAIN l : l[i].e = "send" /\ l[i].op = OpResume})

\* C6 as claimed: after messageAction has handled any envelope carrying a
\* sequence number s, seq = s; a resume carrying seq = s was sent if
\* s > seq + 1, and the sequence tracking sent none otherwise.
C6_SeqFollowsEveryEnvelope ==
    [][ (last'.h = "ws_message" /\ last'.s # NoSeq) =>
              LET c == last'.c
              IN  /\ conn'[c].seq = last'.s
                  /\ last'.s > conn[c].seq + 1 =>
                        /\ Len(Sends(log')) >= 1
                        /\ Sends(log')[1].op = OpResume
                        /\ Sends(log')[1].seq = last'.s
                  /\ last'.s <= conn[c].seq + 1 =>
                        NumResumes(log') = ResumesOf(conn[c], last')
      ]_vars

\* C6, amended: after messageAction has handled an envelope carrying a
\* non-zero sequence number s, seq = s, unless the envelope is an
\* INVALID_SESSION that resets the session (d false or no sessionId), which
\* leaves seq = 0; if s > seq + 1 the first message sent is a resume
\* carrying seq = s, and if s <= seq + 1 the sequence tracking sends no
\* resume.  An s of 0 is handled as an absent s: seq is not set from it.
C6_SeqFollowsNonZeroEnvelope ==
    [][ last'.h = "ws_message" =>
              LET c == last'.c
                  resets == /\ last'.op = OpInvalidSession
                            /\ ~(last'.flag /\ Truthy(conn[c].sessionId))
              IN  /\ conn'[c].seq = (IF resets THEN 0
                                     ELSE Tracked(conn[c], last'.s))
                  /\ NumResumes(log') = ResumesOf(conn[c], last')
                  /\ (last'.s # NoSeq /\ last'.s > conn[c].seq + 1) =>
                        /\ Len(Sends(log')) >= 1
                        /\ Sends(log')[1].op = OpResume
                        /\ Sends(log')[1].seq = last'.s
                        /\ Sends(log')[1].sid = conn[c].sessionId
      ]_vars

\* witness of C6: a dispatch with a gap was handled: seq is its s and the
\* resume carrying it was sent
C6_Witness ==
    /\ last.h = "ws_message" /\ last.op = OpDispatch /\ last.s = MaxSeq
    /\ conn[last.c].seq = MaxSeq
    /\ Len(Sends(log)) = 1
    /\ Sends(log)[1].op = OpResume /\ Sends(log)[1].seq = MaxSeq

\* C7: status = ready implies a non-empty sessionId.
C7_ReadyHasSession ==
    \A c \in Shards : conn[c].status = "ready" => Truthy(conn[c].sessionId)

\* C8: at most one heartbeat timer of a connector is running.
C8_AtMostOneTimer == \A c \in Shards : conn[c].timers <= 1

\* C9: the close notification that follows disconnect(), whatever its
\* code, requests no connect and emits disconnect with wasGraceful = true.
C9_CloseAfterDisconnectIsGraceful ==
    [][ (last'.h = "ws_close" /\ conn[last'.c].closing) =>
              /\ ~Has(log', "connect")
              /\ EmitsDisconnect(log', TRUE)
      ]_vars

\* C10: identify(force) sends exactly one message: a resume (op 6 with the
\* current seq and sessionId), with status resuming, exactly when sessionId
\* is non-empty and force is false; otherwise an identify (op 2), with
\* status identifying.
C10_IdentifyOrResume ==
    [][ last'.h = "identify" =>
              LET c == last'.c
                  sent == Sends(log')
              IN  /\ Len(sent) = 1
                  /\ IF Truthy(conn[c].sessionId) /\ ~last'.flag
                     THEN /\ sent[1].op = OpResume
                          /\ sent[1].seq = conn[c].seq
                          /\ sent[1].sid = conn[c].sessionId
                          /\ conn'[c].status = "resuming"
                     ELSE /\ sent[1].op = OpIdentify
                          /\ conn'[c].status = "identifying"
                  /\ conn'[c].sessionId = conn[c].sessionId
                  /\ conn'[c].seq = conn[c].seq
      ]_vars

\* witness of C10: identify(false) with a session has sent the resume
C10_Witness ==
    /\ last.h = "identify" /\ ~last.flag
    /\ SendsOp(log, OpResume)
    /\ conn[last.c].status = "resuming"
    /\ Truthy(conn[last.c].sessionId)
    /\ conn[last.c].seq > 0

C12_SendsNotOpenAreReported ==
    [][ \A i \in DOMAIN log' :
            (log'[i].e = "send" /\ ~log'[i].open) =>
                \E j \in 1 .. (i - 1) : log'[j].e = "debug"
      ]_vars

\* C13: a close with code 4000 handled while `reconnecting` is set emits
\* disconnect with wasGraceful = true and no error, and the handler requests
\* no connect; the _reconnect(true) call that awaited the close then
\* continues and requests exactly one connect with sessionId and seq as they
\* were.  A close with code 4000 handled while the flag is clear emits an
\* error, cancels the held timer, keeps sessionId and seq and requests one
\* connect.
C13_Close4000ReadsPendingResume ==
    [][ /\ (last'.h = "ws_close" /\ last'.code = 4000) =>
              LET c == last'.c
              IN  /\ conn'[c].sessionId = conn[c].sessionId
                  /\ conn'[c].seq = conn[c].seq
                  /\ conn'[c].heartbeatTimeout = Null
                  /\ Count(log', "clearInterval")
                        = (IF conn[c].heartbeatTimeout # Null THEN 1 ELSE 0)
                  /\ IF reconnecting
                     THEN /\ EmitsDisconnect(log', TRUE)
                          /\ ~EmitsDisconnect(log', FALSE)
                          /\ ~Has(log', "error")
                          /\ ~Has(log', "connect")
                          /\ conn'[c].reconReady = conn[c].reconWaiting
                     ELSE /\ EmitsDisconnect(log', FALSE)
                          /\ Has(log', "error")
                          /\ Count(log', "connect") = 1
                          /\ Before(log', "clearInterval", "connect")
        /\ (last'.h \in {"reconnectResumed:tick", "reconnectResumed:ws_message"}
            /\ last'.flag) =>
              LET c == last'.c
              IN  /\ Count(log', "connect") = 1
                  /\ conn'[c].sessionId = conn[c].sessionId
                  /\ conn'[c].seq = conn[c].seq
                  /\ Len(conn'[c].reconReady) = Len(conn[c].reconReady) - 1
      ]_vars

\* witness of C13: a close 4000 was handled as graceful while the
\* connector's one _reconnect(true) call awaited it, a session being kept
C13_Witness ==
    /\ last.h = "ws_close" /\ last.code = 4000
    /\ reconnecting
    /\ EmitsDisconnect(log, TRUE) /\ ~Has(log, "connect")
    /\ Len(conn[last.c].reconReady) = 1
    /\ Truthy(conn[last.c].sessionId)

\* C15: after handleWsClose has handled a close, whatever its code, no
\* heartbeat timer of the connector is running, and no tick fires on a
\* closed transport.
C15_NoTimerAfterClose ==
    [][ /\ last'.h = "ws_close" => conn'[last'.c].timers = 0
        /\ last'.h = "tick" => conn[last'.c].ws # "closed"
      ]_vars

\* C16: after handleWsClose has handled a close, whatever its code, _closing
\* is false; only a disconnect() call (its close request with code 1000)
\* sets it again, so a close with code 1000 handled while it is false is
\* reported with wasGraceful = false.
C16_ClosingClearedByEveryClose ==
    [][ /\ last'.h = "ws_close" => ~conn'[last'.c].closing
        /\ (last'.h = "ws_close" /\ last'.code = 1000
            /\ ~conn[last'.c].closing) =>
              /\ EmitsDisconnect(log', FALSE)
              /\ ~EmitsDisconnect(log', TRUE)
              /\ ~Has(log', "connect")
        /\ \A c \in Shards :
              (~conn[c].closing /\ conn'[c].closing) =>
                  \E i \in DOMAIN log' :
                      log'[i].e = "close" /\ log'[i].code = 1000
      ]_vars

\* witness of C16: a remote close 1000 on an open transport, with a session
\* established and no disconnect() pending, was reported as not graceful
C16_Witness ==
    /\ last.h = "ws_close" /\ last.code = 1000
    /\ EmitsDisconnect(log, FALSE)
    /\ ~conn[last.c].closing
    /\ Truthy(conn[last.c].sessionId)
    /\ conn[last.c].status = "disconnected"

\* C17 as claimed: the reconnect an op 7 RECONNECT starts cancels the
\* heartbeat and hard-resets (sessionId cleared, seq = 0) before it requests
\* the connect; with auto-reconnect disabled op 7 disconnects and requests
\* no connect.
C17_ReconnectRequestReidentifies ==
    [][ /\ last'.h = "reconnectResumed:ws_message" =>
              /\ conn'[last'.c].sessionId = Null
              /\ conn'[last'.c].seq = 0
              /\ conn'[last'.c].heartbeatTimeout = Null
              /\ Has(log', "connect")
        /\ (last'.h = "ws_message" /\ last'.op = OpReconnect
            /\ ~conn[last'.c].optReconnect) =>
              /\ conn'[last'.c].closing
              /\ ~Has(log', "connect")
      ]_vars

\* C17, amended: on op 7 RECONNECT with auto-reconnect enabled the connector
\* sets the pending-resume flag and requests a transport close with code
\* 4000, and nothing else; once the close has completed it cancels the held
\* heartbeat timer and then requests one connect, with sessionId, seq and
\* trace as they were (no hard reset).  With auto-reconnect disabled it
\* calls disconnect(): closing = true, a close with code 1000, no connect.
C17_ReconnectRequestReconnectsPreserving ==
    [][ /\ (last'.h = "ws_message" /\ last'.op = OpReconnect) =>
              LET c == last'.c
              IN  /\ ~Has(log', "connect")
                  /\ ~Has(log', "clearInterval")
                  /\ ~Has(log', "send")
                  /\ Count(log', "close") = 1
                  /\ conn'[c].sessionId = conn[c].sessionId
                  /\ conn'[c].seq = conn[c].seq
                  /\ conn'[c].trace = conn[c].trace
                  /\ conn'[c].timers = conn[c].timers
                  /\ conn'[c].heartbeatTimeout = conn[c].heartbeatTimeout
                  /\ IF conn[c].optReconnect
                     THEN /\ reconnecting'
                          /\ \E i \in DOMAIN log' :
                                log'[i].e = "close" /\ log'[i].code = 4000
                          /\ conn'[c].closing = conn[c].closing
                          /\ conn'[c].reconWaiting =
                                Append(conn[c].reconWaiting,
                                       [resume |-> TRUE, by |-> "ws_message"])
                     ELSE /\ conn'[c].closing
                          /\ \E i \in DOMAIN log' :
                                log'[i].e = "close" /\ log'[i].code = 1000
                          /\ reconnecting' = reconnecting
                          /\ conn'[c].reconWaiting = conn[c].reconWaiting
        /\ last'.h = "reconnectResumed:ws_message" =>
              LET c == last'.c
              IN  /\ last'.flag
                  /\ conn'[c].sessionId = conn[c].sessionId
                  /\ conn'[c].seq = conn[c].seq
                  /\ conn'[c].trace = conn[c].trace
                  /\ conn'[c].heartbeatTimeout = Null
                  /\ Count(log', "clearInterval")
                        = (IF conn[c].heartbeatTimeout # Null THEN 1 ELSE 0)
                  /\ Count(log', "connect") = 1
                  /\ Before(log', "clearInterval", "connect")
      ]_vars

\* witness of C17: the reconnect of an op 7 has cancelled the timer and
\* requested its connect, and the session it kept is a real one
C17_Witness ==
    /\ last.h = "reconnectResumed:ws_message"
    /\ Has(log, "clearInterval") /\ Has(log, "connect")
    /\ Truthy(conn[last.c].sessionId)
    /\ conn[last.c].seq > 0

\* C18: every resume (op 6) the connector sends carries a non-empty
\* sessionId.
C18_ResumeOnlyWithSession ==
    [][ \A i \in DOMAIN log' :
            (log'[i].e = "send" /\ log'[i].op = OpResume) =>
                Truthy(log'[i].sid)
      ]_vars

\* the status transitions the claim lists
ListedTransitions ==
    {<<"disconnected", "connecting">>, <<"connecting", "identifying">>,
     <<"connecting", "resuming">>, <<"identifying", "ready">>,
     <<"resuming", "ready">>}

\* C19: every change of status is a listed transition, or a change to
\* disconnected made by the close handler, and the handler that made it
\* emitted stateChange with the new status last.
C19_OnlyListedTransitions ==
    [][ \A c \in Shards :
            conn'[c].status # conn[c].status =>
                /\ \/ <<conn[c].status, conn'[c].status>> \in ListedTransitions
                   \/ conn'[c].status = "disconnected" /\ last'.h = "ws_close"
                /\ \E i \in DOMAIN log' :
                      /\ log'[i].e = "stateChange"
                      /\ log'[i].st = conn'[c].status
                      /\ \A j \in DOMAIN log' :
                            log'[j].e = "stateChange" => j <= i
      ]_vars

\* the steps by which the connector reconnects on its own for a close: the
\* close handler and the continuations of the _reconnect() calls
Reconnects(h) ==
    h \in {"ws_close", "reconnectResumed:tick", "reconnectResumed:ws_message"}

\* C20: for one close the connector requests at most one connect: the close
\* handler requests at most one, and a continuation of _reconnect() that
\* requests a connect does not follow a step that requested one for the
\* same close.
C20_OneConnectPerClose ==
    [][ /\ last'.h = "ws_close" => Count(log', "connect") <= 1
        /\ (Reconnects(last'.h) /\ last'.h # "ws_close"
            /\ Has(log', "connect")
            /\ Reconnects(last.h) /\ last.c = last'.c) =>
              ~Has(log, "connect")
      ]_vars

(***************************************************************************)
(* Two connectors in one process.  `reconnecting` is a variable of the     *)
(* module, so both connectors read and write the same flag.  The gateway   *)
(* inputs are those that touch the flag: op 7 RECONNECT, HELLO (whose      *)
(* timer ticks into a reconnect), READY, and the closes with code 1000 and *)
(* 4000.                                                                   *)
(***************************************************************************)
Init2 == InitShards({1, 2})

ReconnectMessages ==
    {msg \in Messages :
        \/ msg.op \in {OpReconnect, OpHello}
        \/ msg.op = OpDispatch /\ msg.t = "READY" /\ msg.s = 1}

ReconnectCloseCodes == {1000, 4000}

Next2 ==
    \/ \E c \in Shards : Connect(c)
    \/ \E c \in Shards : Disconnect(c)
    \/ \E c \in Shards : WsOpen(c)
    \/ \E c \in Shards, msg \in ReconnectMessages : WsMessage(c, msg)
    \/ \E c \in Shards, code \in ReconnectCloseCodes : WsClose(c, code)
    \/ \E c \in Shards : \E settles \in Settles(c) : HeartbeatTick(c, settles)
    \/ \E c \in Shards : ReconnectResumed(c)

Spec2 == Init2 /\ [][Next2]_vars

\* C14: a close with code 4000 of a connector whose transport is open (the
\* connector requested no close: the close is the remote's) is handled as
\* ReconnectPreserve, whatever the other connector does: an error is
\* emitted, one connect is requested, wasGraceful = false.
C14_RemoteClose4000IsPreserve ==
    [][ (last'.h = "ws_close" /\ last'.code = 4000
         /\ conn[last'.c].ws = "open") =>
              /\ Has(log', "error")
              /\ Count(log', "connect") = 1
              /\ EmitsDisconnect(log', FALSE)
              /\ ~EmitsDisconnect(log', TRUE)
      ]_vars

=============================================================================
